---- MODULE Spec2Model ----
(***************************************************************************)
(* State-machine model of the OLEDKeyboard class (src/src/OLEDKeyboard.cpp *)
(* and OLEDKeyboard.h): a three-button on-screen keyboard.  The object is  *)
(* the record kb, whose fields carry the names of the C++ members.  Key    *)
(* labels are sequences of one-character strings, so that "Aa" is          *)
(* <<"A","a">> and String += appends every character of a label.           *)
(***************************************************************************)
EXTENDS Integers, Sequences, FiniteSets, TLC

VARIABLES kb,     \* the OLEDKeyboard instance (its data members)
          clock,  \* value of millis() at the most recent update() call
          last,   \* history of the most recent call (observation only)
          flips,  \* number of update() calls that inverted the cursor,
                  \* counted up to MaxFlips (observation only)
          age,    \* true milliseconds, counted up to 2^TimeBits, from boot
                  \* and from the instant each timestamp member stands for
                  \* to the most recent update() call (observation only)
          twin    \* a second OLEDKeyboard instance, run beside kb in SpecTwin

vars == <<kb, clock, last, flips, age, twin>>

----------------------------------------------------------------------------
(* Bounds of the model                                                     *)

\* unsigned long is modelled as an unsigned integer of TimeBits bits
TimeBits == 12
TimeMod == 2 ^ TimeBits
\* the clock of Spec stops here
MaxTime == 402
\* number of update() calls of a walk in SpecNav
MaxWalk == 10
\* lengths offered to setMaxLength beside the rejected ones
MaxLen == 2

\* largest number of cursor inversions counted
MaxFlips == 3
\* number of update() calls in SpecDraw
MaxDraw == 9

\* time between the calls of a walk
WalkInterval == 201

\* largest value of millis() in SpecBlink
MaxBlinkTime == 1002
\* elapsed milliseconds between two update() calls in SpecBlink
BlinkSteps == {1, 250, 501}

\* elapsed milliseconds between two update() calls
Steps == {100, 201}
\* arguments offered to the setters
MaxLengthArgs == (-1) .. MaxLen
DebounceArgs == {0}
BlinkArgs == {300}
PositionArgs == { <<0, 20>> }
HeightArgs == {-1, 0, 16}
KeySizeArgs == { <<0, 11>>, <<13, 0>>, <<-1, -1>>, <<12, 10>> }
SpacingArgs == { <<-1, 2>>, <<2, -1>>, <<1, 0>> }
\* getDisplayWidth() and getDisplayHeight() of the displays offered to begin():
\* the 128x64 panel of the examples and a 48x64 panel
DisplaySizes == { <<128, 64>>, <<48, 64>> }

----------------------------------------------------------------------------
(* Constants of the header                                                 *)

KEY_ROWS == 4
KEY_COLS == 8
KEY_COUNT == KEY_ROWS * KEY_COLS

STATE_UPPERCASE == "STATE_UPPERCASE"
STATE_LOWERCASE == "STATE_LOWERCASE"
STATE_SYMBOLS == "STATE_SYMBOLS"
KeyboardState == {STATE_UPPERCASE, STATE_LOWERCASE, STATE_SYMBOLS}

_keysUpper ==
  << <<"A">>, <<"B">>, <<"C">>, <<"D">>, <<"E">>, <<"F">>, <<"G">>, <<"H">>,
     <<"I">>, <<"J">>, <<"K">>, <<"L">>, <<"M">>, <<"N">>, <<"O">>, <<"P">>,
     <<"Q">>, <<"R">>, <<"S">>, <<"T">>, <<"U">>, <<"V">>, <<"W">>, <<"X">>,
     <<"A","a">>, <<"?","#">>, <<"<">>, <<"_">>, <<".">>, <<"Y">>, <<"Z">>, <<">">> >>

_keysLower ==
  << <<"a">>, <<"b">>, <<"c">>, <<"d">>, <<"e">>, <<"f">>, <<"g">>, <<"h">>,
     <<"i">>, <<"j">>, <<"k">>, <<"l">>, <<"m">>, <<"n">>, <<"o">>, <<"p">>,
     <<"q">>, <<"r">>, <<"s">>, <<"t">>, <<"u">>, <<"v">>, <<"w">>, <<"x">>,
     <<"A","a">>, <<"?","#">>, <<"<">>, <<"_">>, <<".">>, <<"y">>, <<"z">>, <<">">> >>

\* mutant: a symbols grid with Enter one key before the last
_keysSymbols_EnterMoved ==
  << <<"1">>, <<"2">>, <<"3">>, <<"4">>, <<"5">>, <<"6">>, <<"7">>, <<"8">>,
     <<"9">>, <<"0">>, <<"@">>, <<"#">>, <<"$">>, <<"%">>, <<"&">>, <<"*">>,
     <<"-">>, <<"+">>, <<"=">>, <<"/">>, <<"\\">>, <<"(">>, <<")">>, <<"!">>,
     <<"A","a">>, <<"?","#">>, <<"<">>, <<"_">>, <<".">>, <<"?">>, <<">">>, <<",">> >>

_keysSymbols ==
  << <<"1">>, <<"2">>, <<"3">>, <<"4">>, <<"5">>, <<"6">>, <<"7">>, <<"8">>,
     <<"9">>, <<"0">>, <<"@">>, <<"#">>, <<"$">>, <<"%">>, <<"&">>, <<"*">>,
     <<"-">>, <<"+">>, <<"=">>, <<"/">>, <<"\\">>, <<"(">>, <<")">>, <<"!">>,
     <<"A","a">>, <<"?","#">>, <<"<">>, <<"_">>, <<".">>, <<"?">>, <<",">>, <<">">> >>

----------------------------------------------------------------------------
(* Unsigned arithmetic of the timing variables                             *)

\* mutant: the difference of the two counter values without the wrap
USub_Signed(a, b) == a - b

\* a - b on unsigned long
USub(a, b) == (a - b + TimeMod) % TimeMod

----------------------------------------------------------------------------
(* The private methods, as functions of the object o                       *)

_getCurrentKeys(o) ==
  CASE o._currentState = STATE_LOWERCASE -> _keysLower
    [] o._currentState = STATE_SYMBOLS -> _keysSymbols
    [] OTHER -> _keysUpper

\* mutant: _isSpecialKey() without the comparison with "_"
_isSpecialKey_SpaceIsLiteral(key) ==
  \/ key = <<">">>
  \/ key = <<"<">>
  \/ key = <<"A", "a">>
  \/ key = <<"?", "#">>

_isSpecialKey(key) ==
  \/ key = <<">">>
  \/ key = <<"<">>
  \/ key = <<"_">>
  \/ key = <<"A", "a">>
  \/ key = <<"?", "#">>

\* _handleSpecialKey with Shift ignored while the mode is Symbols
_handleSpecialKey_ShiftKeepsSymbols(o, key) ==
  IF key = <<">">> THEN
    [o EXCEPT !._inputComplete = TRUE]
  ELSE IF key = <<"<">> THEN
    IF Len(o._inputText) > 0
      THEN [o EXCEPT !._inputText = SubSeq(o._inputText, 1, Len(o._inputText) - 1)]
      ELSE o
  ELSE IF key = <<"_">> THEN
    IF Len(o._inputText) < o._maxInputLength
      THEN [o EXCEPT !._inputText = o._inputText \o <<" ">>]
      ELSE o
  ELSE IF key = <<"A", "a">> THEN
    [o EXCEPT !._currentState =
       IF o._currentState = STATE_SYMBOLS THEN STATE_SYMBOLS
       ELSE IF o._currentState = STATE_UPPERCASE THEN STATE_LOWERCASE ELSE STATE_UPPERCASE]
  ELSE IF key = <<"?", "#">> THEN
    [o EXCEPT !._currentState =
       IF o._currentState = STATE_SYMBOLS THEN STATE_LOWERCASE ELSE STATE_SYMBOLS]
  ELSE o

\* _handleSpecialKey with the symbols toggle leaving Symbols for Uppercase
_handleSpecialKey_SymbolsToUpper(o, key) ==
  IF key = <<">">> THEN
    [o EXCEPT !._inputComplete = TRUE]
  ELSE IF key = <<"<">> THEN
    IF Len(o._inputText) > 0
      THEN [o EXCEPT !._inputText = SubSeq(o._inputText, 1, Len(o._inputText) - 1)]
      ELSE o
  ELSE IF key = <<"_">> THEN
    IF Len(o._inputText) < o._maxInputLength
      THEN [o EXCEPT !._inputText = o._inputText \o <<" ">>]
      ELSE o
  ELSE IF key = <<"A", "a">> THEN
    [o EXCEPT !._currentState =
       IF o._currentState = STATE_UPPERCASE THEN STATE_LOWERCASE ELSE STATE_UPPERCASE]
  ELSE IF key = <<"?", "#">> THEN
    [o EXCEPT !._currentState =
       IF o._currentState = STATE_SYMBOLS THEN STATE_UPPERCASE ELSE STATE_SYMBOLS]
  ELSE o

\* _handleSpecialKey with Backspace emptying the whole buffer
_handleSpecialKey_BackspaceClears(o, key) ==
  IF key = <<">">> THEN
    [o EXCEPT !._inputComplete = TRUE]
  ELSE IF key = <<"<">> THEN
    IF Len(o._inputText) > 0
      THEN [o EXCEPT !._inputText = <<>>]
      ELSE o
  ELSE IF key = <<"_">> THEN
    IF Len(o._inputText) < o._maxInputLength
      THEN [o EXCEPT !._inputText = o._inputText \o <<" ">>]
      ELSE o
  ELSE IF key = <<"A", "a">> THEN
    [o EXCEPT !._currentState =
       IF o._currentState = STATE_UPPERCASE THEN STATE_LOWERCASE ELSE STATE_UPPERCASE]
  ELSE IF key = <<"?", "#">> THEN
    [o EXCEPT !._currentState =
       IF o._currentState = STATE_SYMBOLS THEN STATE_LOWERCASE ELSE STATE_SYMBOLS]
  ELSE o

\* _handleSpecialKey with Backspace on an empty buffer setting the commit flag
_handleSpecialKey_BackspaceEmptyCommits(o, key) ==
  IF key = <<">">> THEN
    [o EXCEPT !._inputComplete = TRUE]
  ELSE IF key = <<"<">> THEN
    IF Len(o._inputText) > 0
      THEN [o EXCEPT !._inputText = SubSeq(o._inputText, 1, Len(o._inputText) - 1)]
      ELSE [o EXCEPT !._inputComplete = TRUE]
  ELSE IF key = <<"_">> THEN
    IF Len(o._inputText) < o._maxInputLength
      THEN [o EXCEPT !._inputText = o._inputText \o <<" ">>]
      ELSE o
  ELSE IF key = <<"A", "a">> THEN
    [o EXCEPT !._currentState =
       IF o._currentState = STATE_UPPERCASE THEN STATE_LOWERCASE ELSE STATE_UPPERCASE]
  ELSE IF key = <<"?", "#">> THEN
    [o EXCEPT !._currentState =
       IF o._currentState = STATE_SYMBOLS THEN STATE_LOWERCASE ELSE STATE_SYMBOLS]
  ELSE o

\* _handleSpecialKey with Enter emptying the buffer it commits
_handleSpecialKey_EnterClears(o, key) ==
  IF key = <<">">> THEN
    [o EXCEPT !._inputComplete = TRUE, !._inputText = <<>>]
  ELSE IF key = <<"<">> THEN
    IF Len(o._inputText) > 0
      THEN [o EXCEPT !._inputText = SubSeq(o._inputText, 1, Len(o._inputText) - 1)]
      ELSE o
  ELSE IF key = <<"_">> THEN
    IF Len(o._inputText) < o._maxInputLength
      THEN [o EXCEPT !._inputText = o._inputText \o <<" ">>]
      ELSE o
  ELSE IF key = <<"A", "a">> THEN
    [o EXCEPT !._currentState =
       IF o._currentState = STATE_UPPERCASE THEN STATE_LOWERCASE ELSE STATE_UPPERCASE]
  ELSE IF key = <<"?", "#">> THEN
    [o EXCEPT !._currentState =
       IF o._currentState = STATE_SYMBOLS THEN STATE_LOWERCASE ELSE STATE_SYMBOLS]
  ELSE o

_handleSpecialKey(o, key) ==
  IF key = <<">">> THEN
    [o EXCEPT !._inputComplete = TRUE]
  ELSE IF key = <<"<">> THEN
    IF Len(o._inputText) > 0
      THEN [o EXCEPT !._inputText = SubSeq(o._inputText, 1, Len(o._inputText) - 1)]
      ELSE o
  ELSE IF key = <<"_">> THEN
    IF Len(o._inputText) < o._maxInputLength
      THEN [o EXCEPT !._inputText = o._inputText \o <<" ">>]
      ELSE o
  ELSE IF key = <<"A", "a">> THEN
    [o EXCEPT !._currentState =
       IF o._currentState = STATE_UPPERCASE THEN STATE_LOWERCASE ELSE STATE_UPPERCASE]
  ELSE IF key = <<"?", "#">> THEN
    [o EXCEPT !._currentState =
       IF o._currentState = STATE_SYMBOLS THEN STATE_LOWERCASE ELSE STATE_SYMBOLS]
  ELSE o

\* _processKeyPress with the length test off by one
_processKeyPress_AppendAtLimit(o, key) ==
  IF _isSpecialKey(key) THEN _handleSpecialKey(o, key)
  ELSE IF Len(o._inputText) <= o._maxInputLength
    THEN [o EXCEPT !._inputText = o._inputText \o key]
    ELSE o

\* _processKeyPress() committing the input when a character finds the buffer full
_processKeyPress_CommitsWhenFull(o, key) ==
  IF _isSpecialKey(key) THEN _handleSpecialKey(o, key)
  ELSE IF Len(o._inputText) < o._maxInputLength
    THEN [o EXCEPT !._inputText = o._inputText \o key]
    ELSE [o EXCEPT !._inputComplete = TRUE]

_processKeyPress(o, key) ==
  IF _isSpecialKey(key) THEN _handleSpecialKey(o, key)
  ELSE IF Len(o._inputText) < o._maxInputLength
    THEN [o EXCEPT !._inputText = o._inputText \o key]
    ELSE o

----------------------------------------------------------------------------
(* handleInput(): the three buttons in the order UP, DOWN, SELECT.         *)
(* pressed is the set of buttons whose pin reads LOW.                      *)

UP == "UP"
DOWN == "DOWN"
SELECT == "SELECT"
Buttons == {UP, DOWN, SELECT}

\* the UP condition with >= in place of >
upAccepted_AtLeast(o, currentTime, pressed) ==
  UP \in pressed /\ USub(currentTime, o._lastUpPress) >= o._debounceDelay

\* UP accepted at once while no UP press was accepted before
upAccepted_FirstPressFree(o, currentTime, pressed) ==
  /\ UP \in pressed
  /\ \/ o._lastUpPress = 0
     \/ USub(currentTime, o._lastUpPress) > o._debounceDelay

upAccepted(o, currentTime, pressed) ==
  UP \in pressed /\ USub(currentTime, o._lastUpPress) > o._debounceDelay

\* handleUp with the index decremented and not wrapped
handleUp_NoWrap(o, currentTime, pressed) ==
  IF upAccepted(o, currentTime, pressed)
    THEN [o EXCEPT !._lastUpPress = currentTime,
                   !._selectedKeyIndex = o._selectedKeyIndex - 1]
    ELSE o

handleUp(o, currentTime, pressed) ==
  IF upAccepted(o, currentTime, pressed)
    THEN [o EXCEPT !._lastUpPress = currentTime,
                   !._selectedKeyIndex = (o._selectedKeyIndex - 1 + KEY_COUNT) % KEY_COUNT]
    ELSE o

downAccepted(o, currentTime, pressed) ==
  DOWN \in pressed /\ USub(currentTime, o._lastDownPress) > o._debounceDelay

\* DOWN moving the selection two keys on
handleDown_TwoSteps(o, currentTime, pressed) ==
  IF downAccepted(o, currentTime, pressed)
    THEN [o EXCEPT !._lastDownPress = currentTime,
                   !._selectedKeyIndex = (o._selectedKeyIndex + 2) % KEY_COUNT]
    ELSE o

handleDown(o, currentTime, pressed) ==
  IF downAccepted(o, currentTime, pressed)
    THEN [o EXCEPT !._lastDownPress = currentTime,
                   !._selectedKeyIndex = (o._selectedKeyIndex + 1) % KEY_COUNT]
    ELSE o

selectAccepted(o, currentTime, pressed) ==
  SELECT \in pressed /\ USub(currentTime, o._lastSelectPress) > o._debounceDelay

\* the label the SELECT branch reads: currentKeys[_selectedKeyIndex]
selectedKey(o) == _getCurrentKeys(o)[o._selectedKeyIndex + 1]

\* mutant: a press seen while the debounce interval has not elapsed
\* restarts the interval
handleSelect_RestampsWhenHeld(o, currentTime, pressed) ==
  IF selectAccepted(o, currentTime, pressed)
    THEN _processKeyPress([o EXCEPT !._lastSelectPress = currentTime], selectedKey(o))
    ELSE IF SELECT \in pressed
      THEN [o EXCEPT !._lastSelectPress = currentTime]
      ELSE o

\* handleSelect without the write of _lastSelectPress
handleSelect_NoTimestamp(o, currentTime, pressed) ==
  IF selectAccepted(o, currentTime, pressed)
    THEN _processKeyPress(o, selectedKey(o))
    ELSE o

\* handleSelect() moving the selection back to the first key after a dispatch
handleSelect_MovesHome(o, currentTime, pressed) ==
  IF selectAccepted(o, currentTime, pressed)
    THEN [_processKeyPress([o EXCEPT !._lastSelectPress = currentTime], selectedKey(o))
            EXCEPT !._selectedKeyIndex = 0]
    ELSE o

handleSelect(o, currentTime, pressed) ==
  IF selectAccepted(o, currentTime, pressed)
    THEN _processKeyPress([o EXCEPT !._lastSelectPress = currentTime], selectedKey(o))
    ELSE o

\* handleInput() looking at SELECT before UP and DOWN
handleInput_SelectFirst(o, currentTime, pressed) ==
  handleDown(handleUp(handleSelect(o, currentTime, pressed),
                      currentTime, pressed),
             currentTime, pressed)

handleInput(o, currentTime, pressed) ==
  handleSelect(handleDown(handleUp(o, currentTime, pressed), currentTime, pressed),
               currentTime, pressed)

\* the cursor inverted as soon as the interval has elapsed (>= for >)
blink_AtLeast(o, now) ==
  IF USub(now, o._lastCursorBlink) >= o._cursorBlinkInterval
    THEN [o EXCEPT !._cursorVisible = ~o._cursorVisible,
                   !._lastCursorBlink = now]
    ELSE o

\* the cursor blink of update()
blink(o, now) ==
  IF USub(now, o._lastCursorBlink) > o._cursorBlinkInterval
    THEN [o EXCEPT !._cursorVisible = ~o._cursorVisible, !._lastCursorBlink = now]
    ELSE o

\* update(): self is the object after the call, ret the value returned.
\* millis() is read as the same value now throughout one call; draw() writes
\* to the display only: the frame it sends is draw(self, env), defined below.
\* update returning the flag as it was when the call began
update_StaleReturn(o, now, pressed) ==
  LET o2 == blink(handleInput(o, now, pressed), now)
  IN [self |-> o2, ret |-> o._inputComplete]

\* mutant: update() that leaves the blink out of a call that handled a press
update_BlinkWhenIdle(o, now, pressed) ==
  LET o1 == handleInput(o, now, pressed)
      o2 == IF o1 = o THEN blink(o1, now) ELSE o1
  IN [self |-> o2, ret |-> o2._inputComplete]

update(o, now, pressed) ==
  LET o2 == blink(handleInput(o, now, pressed), now)
  IN [self |-> o2, ret |-> o2._inputComplete]

----------------------------------------------------------------------------
(* Public methods that change the object                                   *)

\* clearInput() that also moves the selection back to the first key
clearInput_ResetsSelection(o) ==
  [o EXCEPT !._inputText = <<>>, !._inputComplete = FALSE, !._selectedKeyIndex = 0]

clearInput(o) == [o EXCEPT !._inputText = <<>>, !._inputComplete = FALSE]

\* reset() that leaves the selection where it is
reset_KeepsSelection(o) ==
  [o EXCEPT !._currentState = STATE_UPPERCASE,
            !._inputText = <<>>,
            !._inputComplete = FALSE,
            !._cursorVisible = TRUE,
            !._lastCursorBlink = 0]

\* reset() that also forgets when SELECT was last accepted
reset_ClearsDebounce(o) ==
  [o EXCEPT !._currentState = STATE_UPPERCASE,
            !._selectedKeyIndex = 0,
            !._inputText = <<>>,
            !._inputComplete = FALSE,
            !._cursorVisible = TRUE,
            !._lastCursorBlink = 0,
            !._lastSelectPress = 0]

reset(o) ==
  [o EXCEPT !._currentState = STATE_UPPERCASE,
            !._selectedKeyIndex = 0,
            !._inputText = <<>>,
            !._inputComplete = FALSE,
            !._cursorVisible = TRUE,
            !._lastCursorBlink = 0]

\* setMaxLength() that cuts the buffer down to the new limit
setMaxLength_Truncates(o, maxLen) ==
  IF maxLen > 0
    THEN [o EXCEPT !._maxInputLength = maxLen,
                   !._inputText = SubSeq(o._inputText, 1,
                                         IF Len(o._inputText) < maxLen
                                           THEN Len(o._inputText) ELSE maxLen)]
    ELSE o

setMaxLength(o, maxLen) ==
  IF maxLen > 0 THEN [o EXCEPT !._maxInputLength = maxLen] ELSE o

setDebounceDelay(o, delay) == [o EXCEPT !._debounceDelay = delay]

setCursorBlinkInterval(o, interval) == [o EXCEPT !._cursorBlinkInterval = interval]

\* int division of C++: the quotient is truncated towards zero (b > 0)
CDiv(a, b) == IF a >= 0 THEN a \div b ELSE -((-a) \div b)

\* _keyboardX = x; _keyboardY = y;  The constructor assigns neither member,
\* so that the record of an object has these two fields only once a method
\* has assigned them.
assignOrigin(o, x, y) ==
  [f \in DOMAIN o \cup {"_keyboardX", "_keyboardY"} |->
     IF f = "_keyboardX" THEN x
     ELSE IF f = "_keyboardY" THEN y
     ELSE o[f]]

\* mutant: _calculateLayout() that keeps an origin the object already has
_calculateLayout_KeepsOrigin(o) ==
  IF "_keyboardX" \in DOMAIN o
    THEN o
    ELSE assignOrigin(o,
           CDiv(o._screenWidth - (KEY_COLS * o._keyWidth + (KEY_COLS - 1) * o._hSpacing), 2),
           o._inputAreaHeight)

_calculateLayout(o) ==
  assignOrigin(o,
    CDiv(o._screenWidth - (KEY_COLS * o._keyWidth + (KEY_COLS - 1) * o._hSpacing), 2),
    o._inputAreaHeight)

\* begin() on a display whose getDisplayWidth() and getDisplayHeight() are
\* displayWidth and displayHeight (the pin modes and the font of the display
\* are no members of the object)
begin(o, displayWidth, displayHeight) ==
  _calculateLayout([o EXCEPT !._screenWidth = displayWidth,
                             !._screenHeight = displayHeight])

setPosition(o, x, y) == assignOrigin(o, x, y)

setInputAreaHeight(o, height) ==
  IF height > 0
    THEN _calculateLayout([o EXCEPT !._inputAreaHeight = height])
    ELSE o

\* setKeySize() accepting a pair with one positive value (|| for &&)
setKeySize_EitherPositive(o, width, height) ==
  IF width > 0 \/ height > 0
    THEN _calculateLayout([o EXCEPT !._keyWidth = width, !._keyHeight = height])
    ELSE o

setKeySize(o, width, height) ==
  IF width > 0 /\ height > 0
    THEN _calculateLayout([o EXCEPT !._keyWidth = width, !._keyHeight = height])
    ELSE o

setKeySpacing(o, horizontal, vertical) ==
  IF horizontal >= 0 /\ vertical >= 0
    THEN _calculateLayout([o EXCEPT !._hSpacing = horizontal, !._vSpacing = vertical])
    ELSE o

----------------------------------------------------------------------------
(* Drawing.  draw() changes no member of the object: it sends the display  *)
(* a sequence of calls, modelled as the sequence of records                *)
(* [fn |-> name of the U8G2 method, args |-> its arguments].  What the     *)
(* object cannot know is a parameter env of the drawing operators:         *)
(* env.trim is the number of pixels by which getStrWidth() of the display  *)
(* falls short of 6 per character, and env.origin is the pair of values a  *)
(* read of _keyboardX and _keyboardY gives while no method has assigned    *)
(* them.                                                                   *)

\* pixels by which the measured width of a non-empty string may fall short
MaxTrim == 1
Environments ==
  [trim : 0 .. MaxTrim, origin : { <<0, 0>>, <<-1, 77>> }]

Call(fn, args) == [fn |-> fn, args |-> args]

\* _display->getStrWidth(str) with the font begin() sets, u8g2_font_6x10_tr
getStrWidth(str, env) == IF Len(str) = 0 THEN 0 ELSE 6 * Len(str) - env.trim

\* String::substring(beginIndex): the characters from beginIndex (counted
\* from 0) to the end, none when beginIndex is not below the length
substring(str, beginIndex) == SubSeq(str, beginIndex + 1, Len(str))

\* the text drawn keeping the head of the buffer instead of its tail
displayText_KeepsHead(o) ==
  LET fontWidth == 6
      maxChars == CDiv(o._screenWidth - 4, fontWidth)
  IN IF Len(o._inputText) > maxChars
       THEN <<".", ".", ".">> \o SubSeq(o._inputText, 1, maxChars - 3)
       ELSE o._inputText

\* the text _drawInputArea() draws
displayText(o) ==
  LET fontWidth == 6
      maxChars == CDiv(o._screenWidth - 4, fontWidth)
  IN IF Len(o._inputText) > maxChars
       THEN <<".", ".", ".">> \o substring(o._inputText, Len(o._inputText) - maxChars + 3)
       ELSE o._inputText

\* _drawInputArea() drawing the cursor whether or not the input is complete
_drawInputArea_CursorAfterCommit(o, env) ==
  LET textWidth == getStrWidth(displayText(o), env)
  IN << Call("drawFrame", <<0, 0, o._screenWidth, o._inputAreaHeight>>),
        Call("drawStr", <<2, 11, displayText(o)>>) >>
     \o (IF o._cursorVisible /\ textWidth < o._screenWidth - 8
           THEN << Call("drawStr", <<2 + textWidth, 11, <<"_">> >>) >>
           ELSE << >>)

_drawInputArea(o, env) ==
  LET textWidth == getStrWidth(displayText(o), env)
  IN << Call("drawFrame", <<0, 0, o._screenWidth, o._inputAreaHeight>>),
        Call("drawStr", <<2, 11, displayText(o)>>) >>
     \o (IF o._cursorVisible /\ ~o._inputComplete /\ textWidth < o._screenWidth - 8
           THEN << Call("drawStr", <<2 + textWidth, 11, <<"_">> >>) >>
           ELSE << >>)

\* the values read from _keyboardX and _keyboardY
keyboardOrigin(o, env) ==
  IF "_keyboardX" \in DOMAIN o THEN <<o._keyboardX, o._keyboardY>> ELSE env.origin

\* the loop pass highlighting the first key, wherever the selection is
drawKey_HighlightsFirst(o, env, i) ==
  LET row == i \div KEY_COLS
      col == i % KEY_COLS
      keyX == keyboardOrigin(o, env)[1] + col * (o._keyWidth + o._hSpacing)
      keyY == keyboardOrigin(o, env)[2] + row * (o._keyHeight + o._vSpacing)
      keyLabel == _getCurrentKeys(o)[i + 1]
      labelWidth == getStrWidth(keyLabel, env)
      labelX == keyX + CDiv(o._keyWidth - labelWidth, 2)
      labelY == keyY + o._keyHeight - 2
  IN IF i = 0
       THEN << Call("setDrawColor", <<1>>),
               Call("drawBox", <<keyX, keyY, o._keyWidth, o._keyHeight>>),
               Call("setDrawColor", <<0>>),
               Call("drawStr", <<labelX, labelY, keyLabel>>),
               Call("setDrawColor", <<1>>) >>
       ELSE << Call("drawFrame", <<keyX, keyY, o._keyWidth, o._keyHeight>>),
               Call("drawStr", <<labelX, labelY, keyLabel>>) >>

\* one pass of the loop of _drawKeyboard(), for key i
drawKey(o, env, i) ==
  LET row == i \div KEY_COLS
      col == i % KEY_COLS
      keyX == keyboardOrigin(o, env)[1] + col * (o._keyWidth + o._hSpacing)
      keyY == keyboardOrigin(o, env)[2] + row * (o._keyHeight + o._vSpacing)
      keyLabel == _getCurrentKeys(o)[i + 1]
      labelWidth == getStrWidth(keyLabel, env)
      labelX == keyX + CDiv(o._keyWidth - labelWidth, 2)
      labelY == keyY + o._keyHeight - 2
  IN IF i = o._selectedKeyIndex
       THEN << Call("setDrawColor", <<1>>),
               Call("drawBox", <<keyX, keyY, o._keyWidth, o._keyHeight>>),
               Call("setDrawColor", <<0>>),
               Call("drawStr", <<labelX, labelY, keyLabel>>),
               Call("setDrawColor", <<1>>) >>
       ELSE << Call("drawFrame", <<keyX, keyY, o._keyWidth, o._keyHeight>>),
               Call("drawStr", <<labelX, labelY, keyLabel>>) >>

\* the passes of the loop for the keys i .. KEY_COUNT - 1
RECURSIVE drawKeysFrom(_, _, _)
drawKeysFrom(o, env, i) ==
  IF i >= KEY_COUNT THEN << >>
  ELSE drawKey(o, env, i) \o drawKeysFrom(o, env, i + 1)

_drawKeyboard(o, env) == drawKeysFrom(o, env, 0)

draw(o, env) ==
  << Call("clearBuffer", << >>) >>
    \o _drawInputArea(o, env)
    \o _drawKeyboard(o, env)
    \o << Call("sendBuffer", << >>) >>

----------------------------------------------------------------------------
(* The state machine                                                       *)

\* the object the constructor leaves
OLEDKeyboard ==
  [ _screenWidth |-> 128, _screenHeight |-> 64,
    _inputAreaHeight |-> 14,
    _keyWidth |-> 13, _keyHeight |-> 11,
    _hSpacing |-> 2, _vSpacing |-> 2,
    _maxInputLength |-> 20,
    _debounceDelay |-> 200,
    _cursorBlinkInterval |-> 500,
    _currentState |-> STATE_UPPERCASE,
    _inputText |-> <<>>,
    _inputComplete |-> FALSE,
    _cursorVisible |-> TRUE,
    _selectedKeyIndex |-> 0,
    _lastCursorBlink |-> 0,
    _lastUpPress |-> 0,
    _lastDownPress |-> 0,
    _lastSelectPress |-> 0 ]

\* history of a call that is not update()
Called(name) ==
  [op |-> name, pressed |-> {}, accepted |-> {}, key |-> <<>>,
   text |-> <<>>, state |-> STATE_UPPERCASE, ret |-> FALSE]

Init ==
  /\ kb = OLEDKeyboard
  /\ clock = 0
  /\ last = Called("OLEDKeyboard")
  /\ flips = 0
  /\ age = [x \in Buttons \cup {"blink", "boot"} |-> 0]
  /\ twin = OLEDKeyboard

\* the true time between a call that read millis() as from and the next
\* call, which reads it as to: the calls are less than 2^TimeBits ms apart
Gap(from, to) == IF to >= from THEN to - from ELSE to + TimeMod - from

\* one update() call at millis() = now with the buttons of pressed held down.
\* last records the buttons pressed and accepted, the label dispatched (<<>>
\* when none), the buffer and the mode before a dispatch, the value returned.
\* flips counts the calls that inverted the cursor.  age adds the time since
\* the call before, which is below 2^TimeBits, and starts again from 0 for a
\* button that is accepted and for the blink timestamp when the cursor is
\* inverted.
Update(now, pressed) ==
  LET o1 == handleUp(kb, now, pressed)
      o2 == handleDown(o1, now, pressed)
      sel == selectAccepted(o2, now, pressed)
      r == update(kb, now, pressed)
  IN /\ kb' = r.self
     /\ clock' = now
     /\ last' = [op |-> "update",
                 pressed |-> pressed,
                 accepted |-> {b \in Buttons :
                                 \/ b = UP /\ upAccepted(kb, now, pressed)
                                 \/ b = DOWN /\ downAccepted(o1, now, pressed)
                                 \/ b = SELECT /\ sel},
                 key |-> IF sel THEN selectedKey(o2) ELSE <<>>,
                 text |-> IF sel THEN kb._inputText ELSE <<>>,
                 state |-> IF sel THEN kb._currentState ELSE STATE_UPPERCASE,
                 ret |-> r.ret]
     /\ flips' = IF r.self._cursorVisible # kb._cursorVisible /\ flips < MaxFlips
                   THEN flips + 1 ELSE flips
     /\ age' = [x \in DOMAIN age |->
                  IF \/ x = UP /\ upAccepted(kb, now, pressed)
                     \/ x = DOWN /\ downAccepted(o1, now, pressed)
                     \/ x = SELECT /\ sel
                     \/ x = "blink" /\ r.self._cursorVisible # kb._cursorVisible
                    THEN 0
                  ELSE IF age[x] + Gap(clock, now) < TimeMod
                    THEN age[x] + Gap(clock, now)
                    ELSE TimeMod]

UpdateStep ==
  \E dt \in Steps, pressed \in SUBSET Buttons :
    /\ clock + dt <= MaxTime
    /\ Update(clock + dt, pressed)
    /\ UNCHANGED twin

ClearInput ==
  /\ kb' = clearInput(kb)
  /\ last' = Called("clearInput")
  /\ UNCHANGED <<clock, flips, age, twin>>

Reset ==
  /\ kb' = reset(kb)
  /\ last' = Called("reset")
  /\ age' = [age EXCEPT !["blink"] = age["boot"]]
  /\ UNCHANGED <<clock, flips, twin>>

SetMaxLength ==
  \E maxLen \in MaxLengthArgs :
    /\ kb' = setMaxLength(kb, maxLen)
    /\ last' = Called("setMaxLength")
    /\ UNCHANGED <<clock, flips, age, twin>>

SetDebounceDelay ==
  \E delay \in DebounceArgs :
    /\ kb' = setDebounceDelay(kb, delay)
    /\ last' = Called("setDebounceDelay")
    /\ UNCHANGED <<clock, flips, age, twin>>

SetCursorBlinkInterval ==
  \E interval \in BlinkArgs :
    /\ kb' = setCursorBlinkInterval(kb, interval)
    /\ last' = Called("setCursorBlinkInterval")
    /\ UNCHANGED <<clock, flips, age, twin>>

Begin ==
  \E d \in DisplaySizes :
    /\ kb' = begin(kb, d[1], d[2])
    /\ last' = Called("begin")
    /\ UNCHANGED <<clock, flips, age, twin>>

SetPosition ==
  \E p \in PositionArgs :
    /\ kb' = setPosition(kb, p[1], p[2])
    /\ last' = Called("setPosition")
    /\ UNCHANGED <<clock, flips, age, twin>>

SetInputAreaHeight ==
  \E height \in HeightArgs :
    /\ kb' = setInputAreaHeight(kb, height)
    /\ last' = Called("setInputAreaHeight")
    /\ UNCHANGED <<clock, flips, age, twin>>

SetKeySize ==
  \E s \in KeySizeArgs :
    /\ kb' = setKeySize(kb, s[1], s[2])
    /\ last' = Called("setKeySize")
    /\ UNCHANGED <<clock, flips, age, twin>>

SetKeySpacing ==
  \E s \in SpacingArgs :
    /\ kb' = setKeySpacing(kb, s[1], s[2])
    /\ last' = Called("setKeySpacing")
    /\ UNCHANGED <<clock, flips, age, twin>>

Next ==
  \/ UpdateStep
  \/ ClearInput
  \/ Reset
  \/ SetMaxLength
  \/ SetDebounceDelay
  \/ SetCursorBlinkInterval

Spec == Init /\ [][Next]_vars

\* a walk over the grid: one button per call, every press 201 ms after the
\* call before, so that the default debounce delay never suppresses it
WalkStep ==
  \E b \in Buttons :
    /\ clock + WalkInterval <= MaxWalk * WalkInterval
    /\ Update(clock + WalkInterval, {b})
    /\ UNCHANGED twin

NextNav ==
  \/ WalkStep
  \/ SetMaxLength

SpecNav == Init /\ [][NextNav]_vars

\* the sketch's loop with no button held down: update() is called again
\* 1, 250 or 501 ms after the call before
IdleStep ==
  \E dt \in BlinkSteps :
    /\ clock + dt <= MaxBlinkTime
    /\ Update(clock + dt, {})
    /\ UNCHANGED twin

\* setCursorBlinkInterval() called in setup(), before the first update()
SetupBlinkInterval ==
  /\ clock = 0
  /\ SetCursorBlinkInterval

NextBlink ==
  \/ IdleStep
  \/ SetupBlinkInterval

SpecBlink == Init /\ [][NextBlink]_vars

\* update() called 201 ms after the call before, with any buttons held down
ConfigUpdate ==
  \E pressed \in SUBSET Buttons :
    /\ clock + WalkInterval <= MaxTime
    /\ Update(clock + WalkInterval, pressed)
    /\ UNCHANGED twin

\* a sketch that configures the keyboard between its update() calls
NextConfig ==
  \/ ConfigUpdate
  \/ Begin
  \/ SetPosition
  \/ SetInputAreaHeight
  \/ SetKeySize
  \/ SetKeySpacing
  \/ SetMaxLength
  \/ SetDebounceDelay
  \/ SetCursorBlinkInterval
  \/ ClearInput
  \/ Reset

SpecConfig == Init /\ [][NextConfig]_vars

\* the buttons held down during one call of SpecDraw
DrawPresses == { {UP}, {SELECT}, {DOWN, SELECT} }

\* begin() called in setup(), right after the constructor
SetupBegin ==
  /\ last.op = "OLEDKeyboard"
  /\ Begin

\* update() called 201 ms after the call before
DrawStep ==
  \E pressed \in DrawPresses :
    /\ clock + WalkInterval <= MaxDraw * WalkInterval
    /\ Update(clock + WalkInterval, pressed)
    /\ UNCHANGED twin

NextDraw ==
  \/ SetupBegin
  \/ DrawStep

SpecDraw == Init /\ [][NextDraw]_vars

\* The sketch's setup() sets a short maximum length; its loop() then calls
\* update() on every pass for as long as the board is powered, so millis()
\* wraps to 0 after 2^TimeBits - 1.  SELECT is held in every call; UP is held
\* with it in the first call, which moves the selection to Enter when that
\* call accepts it.  The sketch clears the input after update() has returned
\* true.
HoldSteps == {128, 256}

HoldSetup == age["boot"] = 0 /\ SetMaxLength

HoldStep ==
  \E dt \in HoldSteps, pressed \in {{SELECT}, {UP, SELECT}} :
    /\ kb._maxInputLength <= MaxLen
    /\ UP \in pressed => age["boot"] = 0
    /\ Update((clock + dt) % TimeMod, pressed)
    /\ UNCHANGED twin

HoldClear == kb._inputComplete /\ ClearInput

NextHold == HoldSetup \/ HoldStep \/ HoldClear

\* loop() never stops being called: the update() step is weakly fair.
SpecHold == Init /\ [][NextHold]_vars /\ WF_vars(HoldStep)

\* A run that takes millis() through its wrap: the first update() comes a
\* long time after boot, shortly before the wrap, and further calls follow
\* 150 or 250 ms apart, each with any of the buttons pressed, until
\* WrapMargin ms after the counter has wrapped.
WrapMargin == 500
WrapSteps == {150, 250, TimeMod - 396}

WrapStep ==
  \E dt \in WrapSteps, pressed \in SUBSET Buttons :
    /\ dt = TimeMod - 396 <=> age["boot"] = 0
    /\ IF age["boot"] < TimeMod
         THEN age["boot"] + dt <= TimeMod + WrapMargin
         ELSE clock + dt <= WrapMargin
    /\ Update((clock + dt) % TimeMod, pressed)
    /\ UNCHANGED twin

NextWrap == WrapStep

SpecWrap == Init /\ [][NextWrap]_vars

\* Two instances run side by side: every update() of the one is matched by
\* an update() of the other that reads the same millis().  Either may be
\* given another blink interval before the first update(); the two are given
\* different buttons only while their blink intervals agree.
MaxTwin == 4
TwinPresses == {{}, {SELECT}, {UP, SELECT}}

TwinSetupBlinkInterval ==
  /\ clock = 0
  /\ \E interval \in BlinkArgs :
       twin' = setCursorBlinkInterval(twin, interval)
  /\ last' = Called("setCursorBlinkInterval")
  /\ UNCHANGED <<kb, clock, flips, age>>

TwinStep ==
  \E pressed \in TwinPresses, pressedTwin \in TwinPresses :
    /\ kb._cursorBlinkInterval # twin._cursorBlinkInterval => pressed = pressedTwin
    /\ clock + WalkInterval <= MaxTwin * WalkInterval
    /\ Update(clock + WalkInterval, pressed)
    /\ twin' = update(twin, clock + WalkInterval, pressedTwin).self

NextTwin ==
  \/ SetupBlinkInterval
  \/ TwinSetupBlinkInterval
  \/ TwinStep

SpecTwin == Init /\ [][NextTwin]_vars

----------------------------------------------------------------------------
(* Observations shared by the properties                                   *)

\* the most recent call was update() and it accepted button b
Accepted(b) == last.op = "update" /\ b \in last.accepted

\* the most recent call was update() and it dispatched the label key
Dispatched(key) == Accepted(SELECT) /\ last.key = key

\* the label at index i of the grid of mode m, read from the tables
LabelAt(m, i) ==
  IF m = STATE_LOWERCASE THEN _keysLower[i + 1]
  ELSE IF m = STATE_SYMBOLS THEN _keysSymbols[i + 1]
  ELSE _keysUpper[i + 1]

SpecialLabels == { <<">">>, <<"<">>, <<"_">>, <<"A", "a">>, <<"?", "#">> }

IsLiteral(key) == key # <<>> /\ key \notin SpecialLabels

----------------------------------------------------------------------------
(* C1: in every reachable state the buffer holds at most maxLength         *)
(* characters, also when setMaxLength is called while the buffer is not    *)
(* empty.                                                                  *)
C1_LengthWithinMax == Len(kb._inputText) <= kb._maxInputLength

(* C2: the selection index is always in 0..31; an accepted UP (with no     *)
(* accepted DOWN in the same call) takes s to s-1, 0 to 31; an accepted    *)
(* DOWN (with no accepted UP) takes s to s+1, 31 to 0.                     *)
C2_SelectionWraps ==
  /\ [](kb._selectedKeyIndex \in 0 .. 31)
  /\ [][ /\ (last'.op = "update" /\ last'.accepted \cap {UP, DOWN} = {UP})
             => kb'._selectedKeyIndex =
                  (IF kb._selectedKeyIndex = 0 THEN 31 ELSE kb._selectedKeyIndex - 1)
         /\ (last'.op = "update" /\ last'.accepted \cap {UP, DOWN} = {DOWN})
             => kb'._selectedKeyIndex =
                  (IF kb._selectedKeyIndex = 31 THEN 0 ELSE kb._selectedKeyIndex + 1)
       ]_vars

\* DOWN accepted alone at index 31, reached before by UP from 0
C2_Witness ==
  /\ Accepted(DOWN) /\ ~Accepted(UP)
  /\ kb._selectedKeyIndex = 0
  /\ kb._lastUpPress > 0
  /\ kb._lastDownPress > kb._lastUpPress

\* this step is an update() call that dispatches the label key: SELECT is
\* accepted with the selection, as UP and DOWN leave it, on key in the current mode
DispatchStep(key) ==
  /\ last'.op = "update"
  /\ SELECT \in last'.accepted
  /\ LabelAt(kb._currentState, kb'._selectedKeyIndex) = key

(* C3: an accepted SELECT on a literal key or on Space leaves the buffer   *)
(* as it was when its length equals maxLength, and when the length is      *)
(* below maxLength appends exactly one character: the one-character label  *)
(* at the selection index in the grid of the current mode, or a space.     *)
C3_AppendOrDrop ==
  [][ \A key \in {LabelAt(kb._currentState, kb'._selectedKeyIndex)} :
        (DispatchStep(key) /\ (IsLiteral(key) \/ key = <<"_">>)) =>
          /\ Len(kb._inputText) = kb._maxInputLength
               => kb'._inputText = kb._inputText
          /\ Len(kb._inputText) < kb._maxInputLength
               => /\ Len(key) = 1
                  /\ kb'._inputText =
                       Append(kb._inputText, IF key = <<"_">> THEN " " ELSE key[1])
    ]_vars

\* Space dispatched on a full, non-empty buffer and dropped
C3_Witness ==
  /\ Dispatched(<<"_">>)
  /\ Len(last.text) = kb._maxInputLength
  /\ Len(last.text) > 0
  /\ kb._inputText = last.text

(* C4: once the commit flag is set, the text returned by getText() stays   *)
(* the same over all later update() calls, until clearInput or reset.      *)
C4_TextFrozenAfterCommit ==
  [][ (kb._inputComplete /\ kb'._inputComplete) => kb'._inputText = kb._inputText ]_vars

(* C5: update() returns the commit flag as it stands after the call: true  *)
(* in the call that dispatches Enter and in every later call until         *)
(* clearInput or reset, false while no Enter was dispatched since          *)
(* construction or the last clearInput/reset; update never clears it.      *)
C5_ReturnsCommitFlag ==
  /\ ~kb._inputComplete
  /\ [][ /\ last'.op = "update" =>
              /\ last'.ret = (kb._inputComplete \/ DispatchStep(<<">">>))
              /\ kb'._inputComplete = last'.ret
         /\ last'.op \in {"clearInput", "reset"} => ~kb'._inputComplete
         /\ last'.op \notin {"update", "clearInput", "reset"}
              => kb'._inputComplete = kb._inputComplete
       ]_vars

\* the call that dispatches Enter on a non-empty buffer returns true
C5_Witness ==
  /\ Dispatched(<<">">>)
  /\ last.ret
  /\ Len(kb._inputText) > 0

ListedTransitions ==
  { <<STATE_UPPERCASE, <<"A", "a">>, STATE_LOWERCASE>>,
    <<STATE_LOWERCASE, <<"A", "a">>, STATE_UPPERCASE>>,
    <<STATE_UPPERCASE, <<"?", "#">>, STATE_SYMBOLS>>,
    <<STATE_LOWERCASE, <<"?", "#">>, STATE_SYMBOLS>>,
    <<STATE_SYMBOLS, <<"?", "#">>, STATE_LOWERCASE>> }

\* every transition of T is taken when its key is dispatched in its mode,
\* and this step, if it is update(), changes the mode by nothing else
TransitionsAre(T) ==
  last'.op = "update" =>
    /\ \A t \in T : (kb._currentState = t[1] /\ DispatchStep(t[2]))
                       => kb'._currentState = t[3]
    /\ kb'._currentState # kb._currentState
         => \E t \in T : /\ kb._currentState = t[1]
                          /\ DispatchStep(t[2])
                          /\ kb'._currentState = t[3]

FirstSelectCall ==
  /\ last.op = "update"
  /\ SELECT \in last.pressed
  /\ IsLiteral(LabelAt(kb._currentState, kb._selectedKeyIndex))
  /\ Len(IF SELECT \in last.accepted THEN last.text ELSE kb._inputText)
       < kb._maxInputLength

\* this step is update() with SELECT held on a literal key and room in the
\* buffer, less than the debounce delay after the call before
SecondSelectCall ==
  /\ last'.op = "update"
  /\ SELECT \in last'.pressed
  /\ IsLiteral(LabelAt(kb._currentState, kb'._selectedKeyIndex))
  /\ Len(kb._inputText) < kb._maxInputLength
  /\ clock' - clock < kb._debounceDelay

\* buffer mutations of the call before and of this step
FirstMutations ==
  IF SELECT \in last.accepted /\ kb._inputText # last.text THEN 1 ELSE 0

SecondMutations == IF kb'._inputText # kb._inputText THEN 1 ELSE 0

(* C8: two update() calls that both see SELECT pressed on a literal key    *)
(* with room in the buffer, less than debounceInterval apart, together     *)
(* mutate the buffer exactly once, from any reachable state.               *)
C8_ExactlyOneMutation ==
  [][ (FirstSelectCall /\ SecondSelectCall)
        => FirstMutations + SecondMutations = 1 ]_vars

(* C8 as amended: two such calls together mutate the buffer at most once:  *)
(* exactly once when one of the two presses is accepted (the second is     *)
(* never accepted after the first), and not at all when neither is, as     *)
(* when both calls come no later than debounceInterval after construction. *)
C8_AtMostOneMutation ==
  [][ (FirstSelectCall /\ SecondSelectCall) =>
        /\ FirstMutations + SecondMutations =
             (IF SELECT \in last.accepted \/ SELECT \in last'.accepted THEN 1 ELSE 0)
        /\ SELECT \in last.accepted => SELECT \notin last'.accepted
    ]_vars

\* SELECT suppressed on a literal key with room, 100 ms after an accepted one
C8_Witness ==
  /\ last.op = "update"
  /\ SELECT \in last.pressed /\ SELECT \notin last.accepted
  /\ kb._lastSelectPress > 0
  /\ clock - kb._lastSelectPress < kb._debounceDelay
  /\ IsLiteral(LabelAt(kb._currentState, kb._selectedKeyIndex))
  /\ Len(kb._inputText) = 1
  /\ Len(kb._inputText) < kb._maxInputLength

\* the last-accepted timestamp of button b in the object o
LastPress(o, b) ==
  IF b = UP THEN o._lastUpPress
  ELSE IF b = DOWN THEN o._lastDownPress
  ELSE o._lastSelectPress

(* C9: a press of UP, DOWN or SELECT is accepted only when the clock is    *)
(* strictly more than debounceInterval past the last accepted press of the *)
(* same button; a press seen no later than that is not accepted, leaves    *)
(* the button's timestamp and has no effect: SELECT changes neither        *)
(* buffer, mode nor commit flag, UP and DOWN do not move the selection,    *)
(* and with no other button pressed only the blink fields may change.      *)
C9_Debounce ==
  [][ last'.op = "update" =>
        \A b \in Buttons :
          /\ b \in last'.accepted
               => /\ b \in last'.pressed
                  /\ clock' - LastPress(kb, b) > kb._debounceDelay
                  /\ LastPress(kb', b) = clock'
          /\ (b \in last'.pressed /\ clock' - LastPress(kb, b) <= kb._debounceDelay)
               => /\ b \notin last'.accepted
                  /\ LastPress(kb', b) = LastPress(kb, b)
                  /\ b = SELECT => /\ kb'._inputText = kb._inputText
                                    /\ kb'._currentState = kb._currentState
                                    /\ kb'._inputComplete = kb._inputComplete
                  /\ (b # SELECT /\ last'.accepted \cap {UP, DOWN} = {})
                       => kb'._selectedKeyIndex = kb._selectedKeyIndex
                  /\ last'.pressed = {b}
                       => kb = [kb' EXCEPT !._cursorVisible = kb._cursorVisible,
                                           !._lastCursorBlink = kb._lastCursorBlink]
    ]_vars

\* UP held and suppressed exactly debounceInterval after its last acceptance
C9_Witness ==
  /\ last.op = "update"
  /\ UP \in last.pressed /\ UP \notin last.accepted
  /\ kb._lastUpPress > 0
  /\ kb._debounceDelay > 0
  /\ clock - kb._lastUpPress = kb._debounceDelay

\* a literal key was dispatched by the most recent call
LiteralJustDispatched == Accepted(SELECT) /\ IsLiteral(last.key)

\* the buffer a Backspace dispatched now would leave
AfterBackspace == _processKeyPress(kb, <<"<">>)._inputText

(* C10: for every reachable buffer of length 0 up to and including         *)
(* maxLength, dispatching a literal key and then Backspace restores the    *)
(* buffer to its value before the literal key.                             *)
C10_BackspaceInverts ==
  (LiteralJustDispatched /\ Len(last.text) <= kb._maxInputLength)
    => AfterBackspace = last.text

(* C10 as amended: this holds for every reachable buffer of length         *)
(* strictly below maxLength; at length maxLength the literal is dropped    *)
(* and Backspace removes the last character the buffer already had.        *)
C10_BackspaceInvertsAppend ==
  (LiteralJustDispatched /\ Len(last.text) < kb._maxInputLength)
    => AfterBackspace = last.text

\* a literal appended to a non-empty buffer that had room
C10_Witness ==
  /\ LiteralJustDispatched
  /\ Len(last.text) > 0
  /\ Len(last.text) < kb._maxInputLength
  /\ kb._inputText = last.text \o last.key

(* C11: an accepted SELECT on Backspace removes exactly the last character *)
(* of a non-empty buffer; on an empty buffer it does nothing: the buffer   *)
(* stays empty and the mode, the selection (as UP and DOWN of the same     *)
(* call leave it) and the commit flag are unchanged.                       *)
C11_BackspaceRemovesLast ==
  [][ DispatchStep(<<"<">>) =>
        /\ Len(kb._inputText) > 0 =>
             /\ Len(kb'._inputText) = Len(kb._inputText) - 1
             /\ kb._inputText = kb'._inputText \o <<kb._inputText[Len(kb._inputText)]>>
        /\ Len(kb._inputText) = 0 =>
             /\ kb'._inputText = <<>>
             /\ kb'._currentState = kb._currentState
             /\ kb'._selectedKeyIndex =
                  handleDown(handleUp(kb, clock', last'.pressed),
                             clock', last'.pressed)._selectedKeyIndex
             /\ kb'._inputComplete = kb._inputComplete
    ]_vars

\* Backspace dispatched on an empty buffer
C11_Witness ==
  /\ Dispatched(<<"<">>)
  /\ last.text = <<>>
  /\ kb._inputText = <<>>
  /\ ~kb._inputComplete

(* C12: from every reachable state, reset() leaves the mode Uppercase, the *)
(* selection 0, the buffer empty, the commit flag false and the cursor     *)
(* visible.                                                                *)
C12_ResetPostState ==
  [][ last'.op = "reset" =>
        /\ kb'._currentState = STATE_UPPERCASE
        /\ kb'._selectedKeyIndex = 0
        /\ kb'._inputText = <<>>
        /\ kb'._inputComplete = FALSE
        /\ kb'._cursorVisible = TRUE
    ]_vars

\* reset() called after the selection was moved and a key was dispatched
C12_Witness ==
  /\ last.op = "reset"
  /\ kb._lastUpPress > 0
  /\ kb._lastSelectPress > kb._lastUpPress
  /\ kb._selectedKeyIndex = 0
  /\ kb._inputText = <<>>
  /\ kb._cursorVisible

(* C13: from the initial state, with update() called repeatedly and no     *)
(* button pressed, the cursor has been inverted exactly twice when         *)
(* 2 * blinkInterval of clock time has elapsed.                            *)
C13_TwoFlipsInTwoIntervals ==
  clock = 2 * kb._cursorBlinkInterval => flips = 2

(* C13 as amended: in that run the cursor is inverted exactly once within  *)
(* 2 * blinkInterval, by the first call made after more than blinkInterval *)
(* (no flip before); the second flip needs a call more than blinkInterval  *)
(* after the first, so none happens before 2 * blinkInterval + 2.          *)
C13_OneFlipInTwoIntervals ==
  /\ clock <= kb._cursorBlinkInterval => (flips = 0 /\ kb._cursorVisible)
  /\ (clock > kb._cursorBlinkInterval /\ clock <= 2 * kb._cursorBlinkInterval + 1)
       => (flips = 1 /\ ~kb._cursorVisible)

\* 2 * blinkInterval has elapsed and the cursor was inverted once
C13_Witness ==
  /\ last.op = "update"
  /\ clock = 2 * kb._cursorBlinkInterval
  /\ flips = 1
  /\ ~kb._cursorVisible
  /\ kb._lastCursorBlink > kb._cursorBlinkInterval

\* the object was configured away from the defaults of the constructor:
\* begin() ran and a key size and a maximum length were set
Configured ==
  /\ "_keyboardX" \in DOMAIN kb
  /\ kb._keyWidth # OLEDKeyboard._keyWidth
  /\ kb._maxInputLength # OLEDKeyboard._maxInputLength
  /\ kb._screenWidth # OLEDKeyboard._screenWidth

(* C14: clearInput() empties the buffer and clears the commit flag, and    *)
(* leaves every other member as it was: mode, selection, cursor            *)
(* visibility, blink timestamp, debounce timestamps and configuration.     *)
C14_ClearInputFrame ==
  [][ last'.op = "clearInput" =>
        kb' = [kb EXCEPT !._inputText = <<>>, !._inputComplete = FALSE]
    ]_vars

\* clearInput() on a configured object whose selection has moved and whose
\* SELECT has been accepted
C14_Witness ==
  /\ last.op = "clearInput"
  /\ Configured
  /\ kb._selectedKeyIndex # 0
  /\ kb._lastSelectPress > 0
  /\ kb._inputText = <<>> /\ ~kb._inputComplete

(* C15: reset() leaves maxLength, the debounce delay, the blink interval,  *)
(* every geometry value and the three debounce timestamps as they were:    *)
(* the object differs from the one before the call in no member other than *)
(* mode, selection, buffer, commit flag, cursor visibility and blink       *)
(* timestamp.                                                              *)
C15_ResetFrame ==
  [][ last'.op = "reset" =>
        kb = [kb' EXCEPT !._currentState = kb._currentState,
                         !._selectedKeyIndex = kb._selectedKeyIndex,
                         !._inputText = kb._inputText,
                         !._inputComplete = kb._inputComplete,
                         !._cursorVisible = kb._cursorVisible,
                         !._lastCursorBlink = kb._lastCursorBlink]
    ]_vars

\* reset() on a configured object after UP and SELECT were accepted
C15_Witness ==
  /\ last.op = "reset"
  /\ Configured
  /\ kb._lastUpPress > 0
  /\ kb._lastSelectPress > 0
  /\ kb._debounceDelay # OLEDKeyboard._debounceDelay

(* C16: a configuration call with an out-of-range argument changes no      *)
(* member of the object, whatever was configured before:                   *)
(* setMaxLength(n) with n <= 0, setInputAreaHeight(h) with h <= 0,         *)
(* setKeySize(w, h) with w <= 0 or h <= 0 (both values rejected) and       *)
(* setKeySpacing(a, b) with a < 0 or b < 0.                                *)
C16_RejectedCallsChangeNothing ==
  /\ \A n \in MaxLengthArgs : n <= 0 => setMaxLength(kb, n) = kb
  /\ \A h \in HeightArgs : h <= 0 => setInputAreaHeight(kb, h) = kb
  /\ \A s \in KeySizeArgs :
       (s[1] <= 0 \/ s[2] <= 0) => setKeySize(kb, s[1], s[2]) = kb
  /\ \A s \in SpacingArgs :
       (s[1] < 0 \/ s[2] < 0) => setKeySpacing(kb, s[1], s[2]) = kb

\* a setKeySize() call was rejected (no accepted call leaves the default
\* width) on an object with a spacing and an origin set before, which it keeps
C16_Witness ==
  /\ last.op = "setKeySize"
  /\ kb._keyWidth = OLEDKeyboard._keyWidth
  /\ kb._hSpacing # OLEDKeyboard._hSpacing
  /\ "_keyboardX" \in DOMAIN kb
  /\ <<kb._keyboardX, kb._keyboardY>> \in PositionArgs

\* the members that hold the input state: mode, selection, buffer, commit
\* flag, cursor visibility, blink timestamp and debounce timestamps
InputState(o) ==
  << o._currentState, o._selectedKeyIndex, o._inputText, o._inputComplete,
     o._cursorVisible, o._lastCursorBlink,
     o._lastUpPress, o._lastDownPress, o._lastSelectPress >>

ConfigurationSetters ==
  { "setMaxLength", "setDebounceDelay", "setCursorBlinkInterval",
    "setPosition", "setKeySize", "setKeySpacing", "setInputAreaHeight" }

(* C17: every configuration setter (setMaxLength, setDebounceDelay,        *)
(* setCursorBlinkInterval, setPosition, setKeySize, setKeySpacing,         *)
(* setInputAreaHeight), whatever its arguments and whenever it is called,  *)
(* leaves mode, selection, buffer, commit flag, cursor visibility, blink   *)
(* timestamp and debounce timestamps unchanged.                            *)
C17_SettersKeepInputState ==
  [][ last'.op \in ConfigurationSetters => InputState(kb') = InputState(kb) ]_vars

\* setMaxLength() lowered the limit below the length of the buffer typed
\* before, with the selection moved and the cursor inverted
C17_Witness ==
  /\ last.op = "setMaxLength"
  /\ kb._maxInputLength < Len(kb._inputText)
  /\ kb._lastSelectPress > 0
  /\ kb._lastUpPress > 0
  /\ ~kb._cursorVisible

\* the calls of frame f to the method fn, in order
Calls(f, fn) == SelectSeq(f, LAMBDA c : c.fn = fn)

\* the positions in frame f of the calls to the method fn, in order
Positions(f, fn) == SelectSeq([k \in 1 .. Len(f) |-> k], LAMBDA k : f[k].fn = fn)

(* C18: every frame draw() renders draws the 32 keys of the grid of the    *)
(* current mode, in index order, and highlights exactly one of them, the   *)
(* key at the selection index: a filled box drawn in colour 1 and its      *)
(* label in colour 0 (the only calls that change the colour are those      *)
(* around this box and this label); the other 31 keys are a plain frame    *)
(* and a label in colour 1.                                                *)
C18_OneKeyHighlighted ==
  \A env \in Environments :
    \A f \in {draw(kb, env)} :
      \A str \in {Positions(f, "drawStr")} :
        /\ Len(str) - KEY_COUNT \in {1, 2}
        /\ Len(Calls(f, "drawBox")) = 1
        /\ Len(Calls(f, "drawFrame")) = 1 + (KEY_COUNT - 1)
        /\ \A i \in 0 .. KEY_COUNT - 1 :
             \A k \in {str[Len(str) - KEY_COUNT + i + 1]} :
               /\ f[k].args[3] = LabelAt(kb._currentState, i)
               /\ IF i = kb._selectedKeyIndex
                    THEN /\ Positions(f, "setDrawColor") = <<k - 3, k - 1, k + 1>>
                         /\ f[k - 3].args = <<1>>
                         /\ f[k - 2].fn = "drawBox"
                         /\ f[k - 1].args = <<0>>
                         /\ f[k + 1].args = <<1>>
                    ELSE f[k - 1].fn = "drawFrame"

\* a frame of the symbols grid with the selection on the symbols key,
\* drawn at the origin begin() computed
C18_Witness ==
  /\ last.op = "update"
  /\ "_keyboardX" \in DOMAIN kb
  /\ kb._currentState = STATE_SYMBOLS
  /\ kb._selectedKeyIndex = 25
  /\ Calls(_drawKeyboard(kb, [trim |-> 0, origin |-> <<0, 0>>]), "drawBox")[1].args
       = << kb._keyboardX + 1 * (kb._keyWidth + kb._hSpacing),
            kb._keyboardY + 3 * (kb._keyHeight + kb._vSpacing),
            kb._keyWidth, kb._keyHeight >>

(* C19: the cursor glyph is drawn, immediately after the displayed text    *)
(* (on its baseline, at the x where the measured width of the text ends),  *)
(* if and only if the cursor is visible, the commit flag is false and the  *)
(* measured width of the displayed text is below screenWidth - 8; it is    *)
(* never drawn once the commit flag is true.                               *)
C19_CursorDrawn ==
  \A env \in Environments :
    \A a \in {_drawInputArea(kb, env)} :
      \A textWidth \in {getStrWidth(a[2].args[3], env)} :
        /\ Len(a) \in {2, 3}
        /\ a[2].fn = "drawStr" /\ a[2].args[1] = 2
        /\ Len(a) = 3 <=> /\ kb._cursorVisible
                          /\ ~kb._inputComplete
                          /\ textWidth < kb._screenWidth - 8
        /\ Len(a) = 3 =>
             /\ a[3].fn = "drawStr"
             /\ a[3].args = <<a[2].args[1] + textWidth, a[2].args[2], <<"_">> >>
        /\ kb._inputComplete => Len(a) = 2

\* the cursor is visible and the input is not complete, but the text is as
\* wide as the display lets it be and the cursor is left out
C19_Witness ==
  /\ last.op = "update"
  /\ kb._cursorVisible /\ ~kb._inputComplete
  /\ "_keyboardX" \in DOMAIN kb
  /\ Len(kb._inputText) > 0
  /\ \A env \in Environments :
       /\ getStrWidth(displayText(kb), env) >= kb._screenWidth - 8
       /\ Len(_drawInputArea(kb, env)) = 2

(* C20: with maxChars = (screenWidth - 4) / 6, the text drawn is the       *)
(* buffer when the buffer has at most maxChars characters, and otherwise   *)
(* "..." followed by the last maxChars - 3 characters of the buffer; so    *)
(* the drawn text never has more than maxChars characters and ends with    *)
(* the character typed most recently.                                      *)
C20_TailVisible ==
  \A env \in Environments :
    \A drawn \in {_drawInputArea(kb, env)[2].args[3]} :
      LET maxChars == CDiv(kb._screenWidth - 4, 6)
          n == Len(kb._inputText)
      IN /\ n <= maxChars => drawn = kb._inputText
         /\ n > maxChars =>
              drawn = <<".", ".", ".">>
                        \o SubSeq(kb._inputText, n - (maxChars - 3) + 1, n)
         /\ Len(drawn) <= maxChars
         /\ n > 0 => drawn[Len(drawn)] = kb._inputText[n]

\* a buffer longer than maxChars whose head and tail differ
C20_Witness ==
  /\ last.op = "update"
  /\ Len(kb._inputText) > CDiv(kb._screenWidth - 4, 6)
  /\ Len(displayText(kb)) = CDiv(kb._screenWidth - 4, 6)
  /\ kb._inputText[1] # kb._inputText[Len(kb._inputText)]
  /\ kb._inputText[Len(kb._inputText) - 1] # kb._inputText[Len(kb._inputText)]

\* 1 when button b was accepted by the call this step makes, else 0
AcceptedNow(b) == IF b \in last'.accepted THEN 1 ELSE 0

(* C21: one update() call accepts at most one press per button (a button   *)
(* that is not pressed is not accepted, and the timestamp of a button      *)
(* either stays or becomes the time of the call), so it moves the          *)
(* selection by at most one step up and one step down, dispatches at most  *)
(* one key (the buffer length changes by at most 1, and not at all         *)
(* without an accepted SELECT), inverts the cursor at most once, and       *)
(* returns a value.                                                        *)
C21_OneCallBounds ==
  [][ last'.op = "update" =>
        /\ last'.accepted \subseteq last'.pressed
        /\ \A b \in Buttons :
             LastPress(kb', b) = (IF b \in last'.accepted THEN clock' ELSE LastPress(kb, b))
        /\ kb'._selectedKeyIndex =
             (kb._selectedKeyIndex - AcceptedNow(UP) + AcceptedNow(DOWN) + KEY_COUNT)
               % KEY_COUNT
        /\ Len(kb'._inputText) - Len(kb._inputText) \in {-1, 0, 1}
        /\ SELECT \notin last'.accepted => kb'._inputText = kb._inputText
        /\ flips' - flips \in {0, 1}
        /\ (flips' = flips /\ flips < MaxFlips)
             => kb'._cursorVisible = kb._cursorVisible
        /\ last'.ret \in BOOLEAN
    ]_vars

\* a call that accepted all three buttons, appended a character and
\* inverted the cursor
C21_Witness ==
  /\ last.op = "update"
  /\ last.accepted = Buttons
  /\ kb._inputText = last.text \o last.key
  /\ Len(last.key) = 1
  /\ kb._lastCursorBlink = clock
  /\ flips > 0

(* C22: reset() restarts the blink timer at the time of the reset: the     *)
(* first update() after a reset() made at clock value t leaves the cursor  *)
(* visible when now - t <= blinkInterval.                                  *)
C22_ResetRestartsBlinkTimer ==
  [][ ( /\ last.op = "reset"
        /\ last'.op = "update"
        /\ clock' - clock <= kb._cursorBlinkInterval )
      => kb'._cursorVisible
    ]_vars

(* C24: within one update() call the buttons are handled in the order UP,  *)
(* DOWN, SELECT, each against its own timestamp: a pressed button is       *)
(* accepted exactly when the clock is more than the debounce delay past    *)
(* its own last acceptance; when UP and DOWN are both accepted the         *)
(* selection ends where it started; an accepted SELECT dispatches the key  *)
(* at the selection index as UP and DOWN of the same call leave it, read   *)
(* from the grid of the mode current at that moment.                       *)
C24_ButtonOrder ==
  [][ last'.op = "update" =>
        /\ \A b \in Buttons :
             b \in last'.accepted <=>
               (b \in last'.pressed /\ clock' - LastPress(kb, b) > kb._debounceDelay)
        /\ {UP, DOWN} \subseteq last'.accepted
             => kb'._selectedKeyIndex = kb._selectedKeyIndex
        /\ SELECT \in last'.accepted =>
             \A key \in {LabelAt(kb._currentState, kb'._selectedKeyIndex)} :
               /\ last'.key = key
               /\ kb'._inputText = _processKeyPress(kb, key)._inputText
               /\ kb'._currentState = _processKeyPress(kb, key)._currentState
               /\ kb'._inputComplete = _processKeyPress(kb, key)._inputComplete
    ]_vars

\* DOWN and SELECT accepted by one call at index 0: the key dispatched is
\* the one DOWN moved to
C24_Witness ==
  /\ last.op = "update"
  /\ last.accepted = {DOWN, SELECT}
  /\ kb._selectedKeyIndex = 1
  /\ last.key = <<"B">>
  /\ kb._inputText = last.text \o <<"B">>

\* the labels whose dispatch may change the buffer: literals, Space, Backspace
EditsBuffer(key) == IsLiteral(key) \/ key = <<"_">> \/ key = <<"<">>

(* C26: the buffer changes only through an accepted SELECT on a literal    *)
(* key, Space or Backspace, or through clearInput() or reset(): accepted   *)
(* UP and DOWN, the dispatch of Enter, of the shift key or of the symbols  *)
(* key, suppressed presses and blink updates leave it as it was (draw()    *)
(* and getInputText() change no member at all).                            *)
C26_BufferFrame ==
  [][ kb'._inputText # kb._inputText =>
        \/ last'.op \in {"clearInput", "reset"}
        \/ /\ last'.op = "update"
           /\ SELECT \in last'.accepted
           /\ EditsBuffer(last'.key)
    ]_vars

\* Enter dispatched on a non-empty buffer, which it leaves as it was
C26_Witness ==
  /\ Dispatched(<<">">>)
  /\ Len(last.text) > 0
  /\ kb._inputText = last.text
  /\ kb._inputComplete

(* C27: an accepted SELECT never changes the selection index (it stays as  *)
(* UP and DOWN of the same call leave it), whatever key is dispatched, and *)
(* the mode changes only by the dispatch of the shift key or of the        *)
(* symbols key, or by reset(): accepted UP and DOWN, the dispatch of a     *)
(* literal, Space, Backspace or Enter and clearInput() leave the mode.     *)
C27_SelectionAndModeFrame ==
  [][ /\ (last'.op = "update" /\ SELECT \in last'.accepted) =>
           kb'._selectedKeyIndex =
             (kb._selectedKeyIndex - AcceptedNow(UP) + AcceptedNow(DOWN) + KEY_COUNT)
               % KEY_COUNT
      /\ kb'._currentState # kb._currentState =>
           \/ last'.op = "reset"
           \/ /\ last'.op = "update"
              /\ SELECT \in last'.accepted
              /\ last'.key \in { <<"A", "a">>, <<"?", "#">> }
    ]_vars

\* the shift key dispatched in Uppercase: the mode changes, the selection
\* stays on the shift key and the buffer typed before is kept
C27_Witness ==
  /\ Dispatched(<<"A", "a">>)
  /\ last.state = STATE_UPPERCASE
  /\ kb._currentState = STATE_LOWERCASE
  /\ kb._selectedKeyIndex = 24
  /\ Len(kb._inputText) > 0

(* C28: the commit flag goes from false to true only in an update() call   *)
(* that accepts SELECT with the selection, as UP and DOWN of that call     *)
(* leave it, on index 31, the Enter key; no other key dispatch, no UP or   *)
(* DOWN press, no blink update, no setter, neither clearInput() nor        *)
(* reset() nor begin() sets it.                                            *)
C28_CommitOnlyByEnter ==
  [][ (~kb._inputComplete /\ kb'._inputComplete) =>
        /\ last'.op = "update"
        /\ SELECT \in last'.accepted
        /\ kb'._selectedKeyIndex = 31
        /\ last'.key = <<">">>
    ]_vars

\* UP and SELECT accepted by one call at index 0: Enter is dispatched and
\* the flag is set on an object configured before
C28_Witness ==
  /\ last.op = "update"
  /\ last.accepted = {UP, SELECT}
  /\ kb._selectedKeyIndex = 31
  /\ kb._inputComplete
  /\ Configured

(* C29: the three timestamps start at 0, so a button of which no press was *)
(* accepted yet is not accepted when it is seen pressed at a clock value   *)
(* now <= debounceInterval; its first press is accepted only by an         *)
(* update() with now > debounceInterval, and is accepted then.             *)
C29_FirstPressWaits ==
  [][ last'.op = "update" =>
        \A b \in Buttons :
          (b \in last'.pressed /\ LastPress(kb, b) = 0) =>
            (b \in last'.accepted <=> clock' > kb._debounceDelay)
    ]_vars

\* UP seen pressed exactly debounceInterval after construction and not
\* accepted, no UP press having been accepted before
C29_Witness ==
  /\ last.op = "update"
  /\ UP \in last.pressed /\ UP \notin last.accepted
  /\ kb._lastUpPress = 0
  /\ kb._debounceDelay > 0
  /\ clock = kb._debounceDelay


(***************************************************************************)
(* C23: a button that stays pressed over successive update() calls with an *)
(* advancing clock is accepted by the first call at which now minus its    *)
(* timestamp exceeds the debounce interval, and by none before, again and  *)
(* again for as long as it is held: SELECT held on a literal key fills the *)
(* buffer to maxLength, and SELECT held on Enter sets the commit flag      *)
(* again after clearInput().                                               *)
(***************************************************************************)
C23_HeldButtonRepeats ==
  /\ [][ last'.op = "update" =>
           (SELECT \in last'.accepted
              <=> USub(clock', kb._lastSelectPress) > kb._debounceDelay) ]_vars
  /\ (kb._maxInputLength <= MaxLen) ~> Accepted(SELECT)
  /\ (kb._maxInputLength <= MaxLen /\ kb._selectedKeyIndex = 0 /\ age["boot"] > 0)
       ~> (Len(kb._inputText) = kb._maxInputLength)
  /\ (last.op = "clearInput" /\ kb._selectedKeyIndex = 31) ~> kb._inputComplete

\* the buffer was filled to its limit by SELECT held on "A", and the press
\* seen by the most recent call, after the clock has wrapped, was suppressed
C23_Witness ==
  /\ last.op = "update"
  /\ SELECT \in last.pressed \ last.accepted
  /\ kb._selectedKeyIndex = 0
  /\ Len(kb._inputText) = kb._maxInputLength
  /\ Len(kb._inputText) > 1
  /\ age["boot"] = TimeMod


(***************************************************************************)
(* C30: the debounce and blink comparisons subtract modulo 2^TimeBits, so  *)
(* they follow the true elapsed time also when millis() has wrapped: with  *)
(* the true time since its last acceptance (since boot, if there was none) *)
(* below 2^TimeBits, a pressed button is accepted exactly if that time      *)
(* exceeds the debounce interval, and the cursor is inverted exactly if    *)
(* the true time since the blink timestamp exceeds the blink interval.     *)
(***************************************************************************)
C30_WrapFollowsElapsedTime ==
  [][ last'.op = "update" =>
        /\ \A b \in Buttons :
             (b \in last'.pressed /\ age[b] + Gap(clock, clock') < TimeMod)
               => (b \in last'.accepted
                     <=> age[b] + Gap(clock, clock') > kb._debounceDelay)
        /\ age["blink"] + Gap(clock, clock') < TimeMod
             => (kb'._cursorVisible # kb._cursorVisible
                   <=> age["blink"] + Gap(clock, clock') > kb._cursorBlinkInterval)
    ]_vars

\* after the wrap, a call at a clock value not above the debounce interval
\* accepted UP and inverted the cursor
C30_Witness ==
  /\ Accepted(UP)
  /\ age["boot"] = TimeMod
  /\ clock <= kb._debounceDelay
  /\ kb._lastUpPress = clock
  /\ kb._lastCursorBlink = clock


(***************************************************************************)
(* C25: blink and input do not influence each other.  Two instances that   *)
(* read the same clock values and have the same blink interval, whatever   *)
(* buttons each is given, agree on the cursor visibility and on the blink  *)
(* timestamp after every update(), also after a commit; two instances that *)
(* differ only in the blink interval agree on buffer, mode, selection and  *)
(* commit flag after every update().                                       *)
(***************************************************************************)
C25_BlinkAndInputIndependent ==
  /\ kb._cursorBlinkInterval = twin._cursorBlinkInterval
       => /\ kb._cursorVisible = twin._cursorVisible
          /\ kb._lastCursorBlink = twin._lastCursorBlink
  /\ kb._cursorBlinkInterval # twin._cursorBlinkInterval
       => /\ kb._inputText = twin._inputText
          /\ kb._currentState = twin._currentState
          /\ kb._selectedKeyIndex = twin._selectedKeyIndex
          /\ kb._inputComplete = twin._inputComplete

\* with equal blink intervals, one instance has committed and the other has
\* typed a character, and the cursor of both was inverted in the same call
C25_Witness ==
  /\ kb._cursorBlinkInterval = twin._cursorBlinkInterval
  /\ kb._inputComplete /\ ~twin._inputComplete
  /\ Len(twin._inputText) > Len(kb._inputText)
  /\ kb._lastCursorBlink = clock /\ clock > 0
  /\ ~kb._cursorVisible /\ ~twin._cursorVisible


(***************************************************************************)
(* C31: an origin set by setPosition(x, y) lasts until the next accepted   *)
(* geometry change.  begin() and every setInputAreaHeight, setKeySize or   *)
(* setKeySpacing call with valid arguments store the arguments and set the *)
(* origin to x = (screenWidth - (8*keyWidth + 7*hSpacing)) / 2 and         *)
(* y = inputAreaHeight, whatever the origin was; a call of one of the      *)
(* three setters with an argument out of range leaves the object, and with *)
(* it the origin, as it was.                                               *)
(***************************************************************************)
OriginRecomputed(o) ==
  /\ "_keyboardX" \in DOMAIN o /\ "_keyboardY" \in DOMAIN o
  /\ o._keyboardX
       = CDiv(o._screenWidth - (8 * o._keyWidth + 7 * o._hSpacing), 2)
  /\ o._keyboardY = o._inputAreaHeight

C31_GeometryChangeRecomputesOrigin ==
  [][ /\ last'.op = "setPosition" =>
           \E p \in PositionArgs :
             /\ "_keyboardX" \in DOMAIN kb' /\ "_keyboardY" \in DOMAIN kb'
             /\ kb'._keyboardX = p[1] /\ kb'._keyboardY = p[2]
      /\ last'.op = "begin" => OriginRecomputed(kb')
      /\ last'.op = "setInputAreaHeight" =>
           \E height \in HeightArgs :
             IF height > 0
               THEN kb'._inputAreaHeight = height /\ OriginRecomputed(kb')
               ELSE kb' = kb
      /\ last'.op = "setKeySize" =>
           \E s \in KeySizeArgs :
             IF s[1] > 0 /\ s[2] > 0
               THEN /\ kb'._keyWidth = s[1] /\ kb'._keyHeight = s[2]
                    /\ OriginRecomputed(kb')
               ELSE kb' = kb
      /\ last'.op = "setKeySpacing" =>
           \E s \in SpacingArgs :
             IF s[1] >= 0 /\ s[2] >= 0
               THEN /\ kb'._hSpacing = s[1] /\ kb'._vSpacing = s[2]
                    /\ OriginRecomputed(kb')
               ELSE kb' = kb
    ]_vars

\* the origin is the one setPosition() stored, which no layout of this
\* geometry yields, and the call after it was a rejected setKeySize()
C31_Witness ==
  /\ last.op = "setKeySize"
  /\ "_keyboardX" \in DOMAIN kb
  /\ <<kb._keyboardX, kb._keyboardY>> \in PositionArgs
  /\ ~OriginRecomputed(kb)
  /\ kb._keyWidth = 12 /\ kb._hSpacing = 1


(***************************************************************************)
(* C32: each of the three grids has 32 entries and carries the five        *)
(* special tokens at the same indices: the shift key at 24, the symbols    *)
(* key at 25, Backspace at 26, Space at 27 and Enter at 31, the last       *)
(* column of the last row.  Every other index holds a one-character        *)
(* literal in every mode, so the key at an index is special in one mode    *)
(* exactly if it is the same special key in all three, and the selected    *)
(* key is special exactly if the selection is one of these five indices.   *)
(***************************************************************************)
SpecialIndices == {24, 25, 26, 27, 31}

GridsAgree ==
  /\ Len(_keysUpper) = 32 /\ Len(_keysLower) = 32 /\ Len(_keysSymbols) = 32
  /\ (KEY_ROWS - 1) * KEY_COLS + (KEY_COLS - 1) = 31
  /\ \A m \in KeyboardState :
       /\ LabelAt(m, 24) = <<"A", "a">>
       /\ LabelAt(m, 25) = <<"?", "#">>
       /\ LabelAt(m, 26) = <<"<">>
       /\ LabelAt(m, 27) = <<"_">>
       /\ LabelAt(m, 31) = <<">">>
       /\ \A i \in (0..31) \ SpecialIndices :
            ~_isSpecialKey(LabelAt(m, i)) /\ Len(LabelAt(m, i)) = 1
  /\ \A i \in 0..31 : \A m \in KeyboardState :
       _isSpecialKey(LabelAt(m, i))
         <=> \A n \in KeyboardState :
               _isSpecialKey(LabelAt(n, i)) /\ LabelAt(n, i) = LabelAt(m, i)

C32_SpecialKeysFixed ==
  /\ GridsAgree
  /\ _isSpecialKey(selectedKey(kb)) <=> kb._selectedKeyIndex \in SpecialIndices
  /\ Accepted(SELECT) =>
       (_isSpecialKey(last.key) <=> kb._selectedKeyIndex \in SpecialIndices)

\* in symbols mode, SELECT was accepted on index 26 and dispatched Backspace
C32_Witness ==
  /\ kb._currentState = STATE_SYMBOLS
  /\ kb._selectedKeyIndex = 26
  /\ Accepted(SELECT)
  /\ last.key = <<"<">>
  /\ last.state = STATE_SYMBOLS


(***************************************************************************)
(* C33: in every reachable state each character of the buffer is a space   *)
(* or one of the one-character literal labels of the three grids; the      *)
(* glyphs "<", ">" and "_" are in no buffer, and no call makes the buffer  *)
(* longer by a label of a special key, "Aa" and "?#" included.             *)
(***************************************************************************)
LiteralCharacters ==
  { LabelAt(m, i)[1] : m \in KeyboardState,
                       i \in {j \in 0..(KEY_COUNT - 1) :
                                /\ Len(_keysUpper[j + 1]) = 1 /\ _keysUpper[j + 1] \notin SpecialLabels
                                /\ Len(_keysLower[j + 1]) = 1 /\ _keysLower[j + 1] \notin SpecialLabels
                                /\ Len(_keysSymbols[j + 1]) = 1 /\ _keysSymbols[j + 1] \notin SpecialLabels} }

C33_BufferHoldsLiteralsAndSpaces ==
  /\ \A k \in 1..Len(kb._inputText) :
       /\ kb._inputText[k] \in LiteralCharacters \cup {" "}
       /\ kb._inputText[k] \notin {"<", ">", "_"}
  /\ Accepted(SELECT) =>
       /\ last.key \in SpecialLabels \ {<<"_">>}
            => Len(kb._inputText) <= Len(last.text)
       /\ last.key = <<"_">>
            => kb._inputText \in {last.text, last.text \o <<" ">>}
       /\ last.key \notin SpecialLabels
            => kb._inputText \in {last.text, last.text \o last.key}

\* the Space key was dispatched on a buffer that held a literal, and the
\* buffer ends with a space
C33_Witness ==
  /\ Accepted(SELECT)
  /\ last.key = <<"_">>
  /\ Len(last.text) > 0
  /\ kb._inputText = last.text \o <<" ">>

====
